---- MODULE Spec2Model ----
(***************************************************************************)
(* Model of stellar_sdk.sep.mnemonic (StellarMnemonic: SEP-0005 key        *)
(* derivation) and of stellar_sdk.client.requests_client (the server-sent  *)
(* event stream of RequestsClient).                                        *)
(*                                                                         *)
(* Representation.                                                         *)
(*  - A Python int is a record [hi, lo] standing for hi * 2^16 + lo with   *)
(*    0 <= lo < 2^16 and hi any integer, because the values of interest    *)
(*    (2^31, 2^32) do not fit the model checker's machine integers.        *)
(*  - A Python str is a sequence of one-character strings.                 *)
(*  - A Python bytes value is a sequence of chunks [of, from, to]: the     *)
(*    bytes from..to-1 of the value `of`, which is a literal ([lit]), an   *)
(*    opaque input ([sym]), an encoded string ([utf8]) or the output of a  *)
(*    hash primitive ([f, ...]).  HMAC-SHA512 and PBKDF2 are free          *)
(*    (collision-free) function symbols of their arguments.                *)
(***************************************************************************)
EXTENDS Integers, Sequences, FiniteSets, TLC

VARIABLES cls, frames, insts, ctor, gen, sse

vars == <<cls, frames, insts, ctor, gen, sse>>

----------------------------------------------------------------------------
(* Bounds *)

\* number of derive / to_seed calls that may be in flight or finished
NumCalls == 2
\* number of StellarMnemonic instances that may be constructed
MaxInst == 1
\* number of messages the event source may deliver
MaxEvents == 3

Calls == 1..NumCalls

----------------------------------------------------------------------------
(* Python integers *)

Limb == 256 * 256

Big(h, l) == [hi |-> h, lo |-> l]

BigAdd(a, b) ==
    LET s == a.lo + b.lo
    IN  [hi |-> a.hi + b.hi + (s \div Limb), lo |-> s % Limb]

BigNeg(a) ==
    IF a.lo = 0 THEN [hi |-> 0 - a.hi, lo |-> 0]
    ELSE [hi |-> 0 - a.hi - 1, lo |-> Limb - a.lo]

BigMul10(a) ==
    LET t == a.lo * 10
    IN  [hi |-> a.hi * 10 + (t \div Limb), lo |-> t % Limb]

\* quotient of a non-negative value by ten
BigDiv10(a) ==
    LET t == (a.hi % 10) * Limb + a.lo
    IN  [hi |-> a.hi \div 10, lo |-> t \div 10]

\* remainder of a non-negative value by ten
BigMod10(a) == ((a.hi % 10) * Limb + a.lo) % 10

DigitChars == <<"0", "1", "2", "3", "4", "5", "6", "7", "8", "9">>

DigitValue(ch) == (CHOOSE k \in 1..10 : DigitChars[k] = ch) - 1

IsDigit(ch) == \E k \in 1..10 : DigitChars[k] = ch

RECURSIVE Digits(_)
\* decimal digits of a non-negative value, most significant first
Digits(a) ==
    IF a.hi = 0 /\ a.lo < 10 THEN <<DigitChars[a.lo + 1]>>
    ELSE Append(Digits(BigDiv10(a)), DigitChars[BigMod10(a) + 1])

\* "%d" % n
FormatD(n) ==
    IF n.hi < 0 THEN <<"-">> \o Digits(BigNeg(n)) ELSE Digits(n)

RECURSIVE ParseDigits(_, _)
ParseDigits(s, acc) ==
    IF s = <<>> THEN acc
    ELSE ParseDigits(Tail(s), BigAdd(BigMul10(acc), Big(0, DigitValue(Head(s)))))

\* int(s) for a string made of an optional sign and decimal digits
PyInt(s) ==
    IF Head(s) = "-" THEN BigNeg(ParseDigits(Tail(s), Big(0, 0)))
    ELSE ParseDigits(s, Big(0, 0))

----------------------------------------------------------------------------
(* Python strings *)

RECURSIVE PyFormat(_, _)
\* fmt % n for a format whose only conversion is %d
PyFormat(fmt, n) ==
    IF fmt = <<>> THEN <<>>
    ELSE IF Len(fmt) >= 2 /\ fmt[1] = "%" /\ fmt[2] = "d"
         THEN FormatD(n) \o PyFormat(SubSeq(fmt, 3, Len(fmt)), n)
         ELSE <<Head(fmt)>> \o PyFormat(Tail(fmt), n)

RECURSIVE SplitAcc(_, _, _)
SplitAcc(s, sep, cur) ==
    IF s = <<>> THEN <<cur>>
    ELSE IF Head(s) = sep THEN <<cur>> \o SplitAcc(Tail(s), sep, <<>>)
         ELSE SplitAcc(Tail(s), sep, Append(cur, Head(s)))

\* s.split(sep) for a one-character separator
Split(s, sep) == SplitAcc(s, sep, <<>>)

\* x[:-1]
DropLast(x) == SubSeq(x, 1, Len(x) - 1)

----------------------------------------------------------------------------
(* Python bytes *)

Lit(bs) == <<[of |-> [lit |-> bs], from |-> 0, to |-> Len(bs)]>>

Sym(name, n) == <<[of |-> [sym |-> name], from |-> 0, to |-> n]>>

RECURSIVE BLen(_)
BLen(b) == IF b = <<>> THEN 0 ELSE (Head(b).to - Head(b).from) + BLen(Tail(b))

RECURSIVE Take(_, _)
\* b[:n]
Take(b, n) ==
    IF n <= 0 \/ b = <<>> THEN <<>>
    ELSE LET c == Head(b)
             l == c.to - c.from
         IN  IF l <= n THEN <<c>> \o Take(Tail(b), n - l)
             ELSE <<[c EXCEPT !.to = c.from + n]>>

RECURSIVE Drop(_, _)
\* b[n:]
Drop(b, n) ==
    IF b = <<>> THEN <<>>
    ELSE IF n <= 0 THEN b
    ELSE LET c == Head(b)
             l == c.to - c.from
         IN  IF l <= n THEN Drop(Tail(b), n - l)
             ELSE <<[c EXCEPT !.from = c.from + n]>> \o Tail(b)

\* struct.pack(">I", v) succeeds exactly for 0 <= v <= 2^32 - 1
PackFits(v) == v.hi >= 0 /\ v.hi < Limb

\* struct.pack(">I", v): four bytes, most significant first
PackBE32(v) ==
    Lit(<<v.hi \div 256, v.hi % 256, v.lo \div 256, v.lo % 256>>)

\* struct.pack("x"): one zero pad byte
PackPad == Lit(<<0>>)

\* hmac.new(key, digestmod=hashlib.sha512); update(msg); digest()
HmacSha512(key, msg) ==
    <<[of |-> [f |-> "hmac_sha512", key |-> key, msg |-> msg],
       from |-> 0, to |-> 64]>>

----------------------------------------------------------------------------
(* Text normalisation, encoding and key stretching used by to_seed *)

\* compatibility decomposition of one character (unicodedata.normalize("NFKD"))
Decompose(ch) ==
    CASE ch = "e_acute" -> <<"e", "comb_acute">>
      [] ch = "fi_lig"  -> <<"f", "i">>
      [] OTHER          -> <<ch>>

RECURSIVE normalize_string(_)
\* cls.normalize_string(txt): NFKD of a str
normalize_string(txt) ==
    IF txt = <<>> THEN <<>>
    ELSE Decompose(Head(txt)) \o normalize_string(Tail(txt))

Utf8Width(ch) ==
    CASE ch = "e_acute"    -> 2
      [] ch = "comb_acute" -> 2
      [] ch = "fi_lig"     -> 3
      [] OTHER             -> 1

RECURSIVE Utf8Len(_)
Utf8Len(s) == IF s = <<>> THEN 0 ELSE Utf8Width(Head(s)) + Utf8Len(Tail(s))

\* s.encode("utf-8")
Utf8(s) == <<[of |-> [utf8 |-> s], from |-> 0, to |-> Utf8Len(s)]>>

PBKDF2_ROUNDS == 2048

\* hashlib.pbkdf2_hmac(hash, password, salt, iterations): digest-size output
pbkdf2_hmac(hash, password, salt, iterations) ==
    <<[of |-> [f |-> "pbkdf2_hmac", hash |-> hash, password |-> password,
               salt |-> salt, iterations |-> iterations],
       from |-> 0, to |-> 64]>>

SaltPrefix == <<"m", "n", "e", "m", "o", "n", "i", "c">>

\* a stretch that skips the normalisation of its inputs
StretchCallRaw(mnemonic, passphrase) ==
    [hash |-> "sha512", password |-> Utf8(mnemonic),
     salt |-> Utf8(SaltPrefix \o passphrase), iterations |-> PBKDF2_ROUNDS]

\* the pbkdf2 invocation to_seed makes for (mnemonic, passphrase)
StretchCall(mnemonic, passphrase) ==
    LET m  == normalize_string(mnemonic)
        p0 == normalize_string(passphrase)
        p  == SaltPrefix \o p0
    IN  [hash |-> "sha512", password |-> Utf8(m), salt |-> Utf8(p),
         iterations |-> PBKDF2_ROUNDS]

Stretched(k) == pbkdf2_hmac(k.hash, k.password, k.salt, k.iterations)

----------------------------------------------------------------------------
(* StellarMnemonic class attributes *)

STELLAR_ACCOUNT_PATH_FORMAT ==
    <<"m", "/", "4", "4", "'", "/", "1", "4", "8", "'", "/", "%", "d", "'">>

\* 0x80000000
FIRST_HARDENED_INDEX == Big(128 * 256, 0)

\* b"ed25519 seed"
SEED_MODIFIER == Lit(<<101, 100, 50, 53, 53, 49, 57, 32, 115, 101, 101, 100>>)

ClassAttrs ==
    [STELLAR_ACCOUNT_PATH_FORMAT |-> STELLAR_ACCOUNT_PATH_FORMAT,
     FIRST_HARDENED_INDEX        |-> FIRST_HARDENED_INDEX,
     SEED_MODIFIER               |-> SEED_MODIFIER]

----------------------------------------------------------------------------
(* The steps of StellarMnemonic.derive *)

\* master step: (il, ir) from the seed, and the HMAC invocation made
MasterKey(k, seed) ==
    LET d == HmacSha512(k.SEED_MODIFIER, seed)
    IN  [il |-> Take(d, 32), ir |-> Drop(d, 32)]

\* path.split("/")[1:] for path = STELLAR_ACCOUNT_PATH_FORMAT % index
PathSegments(k, index) ==
    Tail(Split(PyFormat(k.STELLAR_ACCOUNT_PATH_FORMAT, index), "/"))

\* FIRST_HARDENED_INDEX + int(x[:-1])
ChildNumber(k, x) == BigAdd(k.FIRST_HARDENED_INDEX, PyInt(DropLast(x)))

\* a child message without the leading pad byte
ChildDataNoPad(il, v) == il \o PackBE32(v)

\* struct.pack("x") + il + struct.pack(">I", v)
ChildData(il, v) == PackPad \o il \o PackBE32(v)

ChildKey(il, ir, v) ==
    LET d == HmacSha512(ir, ChildData(il, v))
    IN  [il |-> Take(d, 32), ir |-> Drop(d, 32)]

NoKey == <<>>

RECURSIVE Walk(_, _, _)
Walk(k, key, path) ==
    IF path = <<>> THEN [error |-> "", key |-> key.il]
    ELSE LET v == ChildNumber(k, Head(path))
         IN  IF ~PackFits(v) THEN [error |-> "struct.error", key |-> NoKey]
             ELSE Walk(k, ChildKey(key.il, key.ir, v), Tail(path))

\* StellarMnemonic.derive(seed, index) run to completion on its own
derive(seed, index) ==
    Walk(ClassAttrs, MasterKey(ClassAttrs, seed), PathSegments(ClassAttrs, index))

\* StellarMnemonic.to_seed(mnemonic, passphrase, index) run to completion
to_seed(mnemonic, passphrase, index) ==
    derive(Take(Stretched(StretchCall(mnemonic, passphrase)), 64), index)

----------------------------------------------------------------------------
(* Call frames of derive / to_seed *)

\* via: 0 for a call on the class, i >= 1 for a call on instance i
IdleFrame ==
    [op |-> "idle", via |-> 0, pc |-> "idle",
     mnemonic |-> <<>>, passphrase |-> <<>>,
     given |-> [passphrase |-> FALSE, index |-> FALSE],
     seed |-> <<>>, index |-> Big(0, 0),
     il |-> <<>>, ir |-> <<>>, path |-> <<>>,
     kdf |-> <<>>, trace |-> <<>>,
     error |-> "", result |-> NoKey, overlapped |-> FALSE]

Active(f) == f.pc \in {"stretch", "master", "child"}

\* some other call is between its first and its last step
Overlaps(c) == \E d \in Calls \ {c} : Active(frames[d]) /\ frames[d].trace # <<>>

DefaultPassphrase == <<>>

DefaultIndex == Big(0, 0)

\* a derive that answers from an earlier call on the same seed
CallDeriveMemo(c, via, seed, index) ==
    /\ frames[c].pc = "idle"
    /\ LET hits == {d \in Calls : frames[d].op = "derive" /\ frames[d].pc = "done"
                                    /\ frames[d].seed = seed}
           fresh == [IdleFrame EXCEPT !.op = "derive", !.via = via, !.pc = "master",
                                      !.seed = seed, !.index = index,
                                      !.given = [passphrase |-> FALSE, index |-> TRUE]]
       IN  frames' = [frames EXCEPT ![c] =
                        IF hits = {} THEN fresh
                        ELSE [fresh EXCEPT !.pc = "done",
                                 !.result = frames[CHOOSE d \in hits : TRUE].result]]
    /\ UNCHANGED <<cls, insts, ctor, gen, sse>>

\* derive(seed, index) is entered
CallDerive(c, via, seed, index) ==
    /\ frames[c].pc = "idle"
    /\ frames' = [frames EXCEPT ![c] =
                    [IdleFrame EXCEPT !.op = "derive", !.via = via, !.pc = "master",
                                      !.seed = seed, !.index = index,
                                      !.given = [passphrase |-> FALSE, index |-> TRUE]]]
    /\ UNCHANGED <<cls, insts, ctor, gen, sse>>

\* to_seed(mnemonic[, passphrase][, index]) is entered; omitted arguments
\* take the defaults of the signature
CallToSeed(c, via, mnemonic, hasP, passphrase, hasI, index) ==
    /\ frames[c].pc = "idle"
    /\ frames' = [frames EXCEPT ![c] =
                    [IdleFrame EXCEPT !.op = "to_seed", !.via = via, !.pc = "stretch",
                        !.mnemonic = mnemonic,
                        !.passphrase = IF hasP THEN passphrase ELSE DefaultPassphrase,
                        !.index = IF hasI THEN index ELSE DefaultIndex,
                        !.given = [passphrase |-> hasP, index |-> hasI]]]
    /\ UNCHANGED <<cls, insts, ctor, gen, sse>>

\* to_seed: normalise, build the salt, encode, run PBKDF2, enter derive
Stretch(c) ==
    LET f == frames[c]
        k == StretchCall(f.mnemonic, f.passphrase)
        stretched == Stretched(k)
    IN  /\ f.pc = "stretch"
        /\ frames' = [frames EXCEPT ![c] =
                        [f EXCEPT !.kdf = Append(f.kdf, k),
                                  !.seed = Take(stretched, 64),
                                  !.pc = "master"]]
        /\ UNCHANGED <<cls, insts, ctor, gen, sse>>

\* derive: the master HMAC and the formatting and splitting of the path
MasterStep(c) ==
    LET f == frames[c]
        m == MasterKey(cls, f.seed)
    IN  /\ f.pc = "master"
        /\ frames' = [frames EXCEPT ![c] =
                        [f EXCEPT !.il = m.il, !.ir = m.ir,
                                  !.path = PathSegments(cls, f.index),
                                  !.trace = Append(f.trace,
                                      [key |-> cls.SEED_MODIFIER, msg |-> f.seed]),
                                  !.pc = "child",
                                  !.overlapped = f.overlapped \/ Overlaps(c)]]
        /\ UNCHANGED <<cls, insts, ctor, gen, sse>>

\* a loop iteration that keeps the working pair in a buffer shared by all calls
ChildStepShared(c) ==
    LET f == frames[c]
        v == ChildNumber(cls, Head(f.path))
        n == ChildKey(f.il, f.ir, v)
    IN  /\ f.pc = "child"
        /\ f.path # <<>>
        /\ frames' = [d \in Calls |->
                        IF d # c
                        THEN IF frames[d].pc = "child" /\ PackFits(v)
                             THEN [frames[d] EXCEPT !.il = n.il, !.ir = n.ir]
                             ELSE frames[d]
                        ELSE IF ~PackFits(v)
                        THEN [f EXCEPT !.error = "struct.error", !.pc = "raised",
                                       !.overlapped = f.overlapped \/ Overlaps(c)]
                        ELSE [f EXCEPT !.il = n.il, !.ir = n.ir,
                                       !.path = Tail(f.path),
                                       !.trace = Append(f.trace,
                                           [key |-> f.ir, msg |-> ChildData(f.il, v)]),
                                       !.overlapped = f.overlapped \/ Overlaps(c)]]
        /\ UNCHANGED <<cls, insts, ctor, gen, sse>>

\* derive: one iteration of the loop over the path segments
ChildStep(c) ==
    LET f == frames[c]
        v == ChildNumber(cls, Head(f.path))
        n == ChildKey(f.il, f.ir, v)
    IN  /\ f.pc = "child"
        /\ f.path # <<>>
        /\ frames' = [frames EXCEPT ![c] =
                        IF ~PackFits(v)
                        THEN [f EXCEPT !.error = "struct.error", !.pc = "raised",
                                       !.overlapped = f.overlapped \/ Overlaps(c)]
                        ELSE [f EXCEPT !.il = n.il, !.ir = n.ir,
                                       !.path = Tail(f.path),
                                       !.trace = Append(f.trace,
                                           [key |-> f.ir, msg |-> ChildData(f.il, v)]),
                                       !.overlapped = f.overlapped \/ Overlaps(c)]]
        /\ UNCHANGED <<cls, insts, ctor, gen, sse>>

\* derive: return il once the path is exhausted
Return(c) ==
    LET f == frames[c]
    IN  /\ f.pc = "child"
        /\ f.path = <<>>
        /\ frames' = [frames EXCEPT ![c] = [f EXCEPT !.result = f.il, !.pc = "done"]]
        /\ UNCHANGED <<cls, insts, ctor, gen, sse>>

----------------------------------------------------------------------------
(* Inputs *)

Seeds == {Sym("seedA", 64), Sym("seedB", 64)}

\* 0, 1, 2^31 - 1, 2^31, 2^31 + 1, 2^32 - 1, 2^32, -1, -2^31, -2^31 - 1
Indices ==
    {Big(0, 0), Big(0, 1), Big(32767, 65535), Big(32768, 0), Big(32768, 1),
     Big(65535, 65535), Big(65536, 0),
     Big(0 - 1, 65535), Big(0 - 32768, 0), Big(0 - 32769, 65535)}

Mnemonics == {<<"i", "l", "l">>, <<"e_acute">>, <<"e", "comb_acute">>}

Passphrases == {<<>>, <<"p">>, <<"fi_lig">>}

SeedIndices == {Big(0, 0), Big(0, 1), Big(32768, 0), Big(0 - 1, 65535)}

NoInstances == <<>>

NoCtor == [called |-> FALSE, arg |-> [kind |-> "str", value |-> ""],
           error |-> "", super_init |-> ""]

NoGen == [called |-> FALSE, self |-> 0, strength |-> 0, error |-> "",
          urandom |-> <<>>, encoded |-> <<>>]

NoStream == [state |-> "running", source |-> "open", error |-> "",
             received |-> <<>>, yielded |-> <<>>]

Init ==
    /\ cls = ClassAttrs
    /\ frames = [c \in Calls |-> IdleFrame]
    /\ insts = NoInstances
    /\ ctor = NoCtor
    /\ gen = NoGen
    /\ sse = NoStream

----------------------------------------------------------------------------
(* One call at a time, over the whole range of arguments *)

StartDerive == \E seed \in Seeds, index \in Indices : CallDerive(1, 0, seed, index)

StartToSeed ==
    \E m \in Mnemonics, hasP \in BOOLEAN, hasI \in BOOLEAN :
        \E p \in (IF hasP THEN Passphrases ELSE {DefaultPassphrase}),
           i \in (IF hasI THEN SeedIndices ELSE {DefaultIndex}) :
            CallToSeed(1, 0, m, hasP, p, hasI, i)

DoStretch == \E c \in Calls : Stretch(c)

DoMaster == \E c \in Calls : MasterStep(c)

DoChild == \E c \in Calls : ChildStep(c)

DoReturn == \E c \in Calls : Return(c)

NextDerive ==
    \/ StartDerive
    \/ StartToSeed
    \/ DoStretch
    \/ DoMaster
    \/ DoChild
    \/ DoReturn

SpecDerive == Init /\ [][NextDerive]_vars

----------------------------------------------------------------------------
(* Properties of derive and to_seed *)

Finished(f) == f.pc \in {"done", "raised"}

\* index >= 2^31
AtLeast2p31(index) == index.hi >= 128 * 256

\* 0 <= index <= 2^31 - 1
InHardenedRange(index) == index.hi >= 0 /\ index.hi < 128 * 256

Digest(t) == HmacSha512(t.key, t.msg)

\* the four bytes of 0x80000000 + segment, most significant first
HardenedBytes(segment) ==
    <<(128 * 256 + segment.hi) \div 256, (128 * 256 + segment.hi) % 256,
      segment.lo \div 256, segment.lo % 256>>

\* the last four bytes of a child step's HMAC message
ChildIndexBytes(t) == t.msg[Len(t.msg)].of.lit

\* C1: derive accepts index 2^31 - 1 and returns a 32-byte key; it rejects
\* every index >= 2^31 with the SDK's ValueError and returns no key.
C1_IndexBoundary ==
    \A c \in Calls :
        LET f == frames[c]
        IN  /\ (Finished(f) /\ f.index = Big(32767, 65535))
                => (f.pc = "done" /\ f.error = "" /\ BLen(f.result) = 32)
            /\ (f.op # "idle" /\ AtLeast2p31(f.index)) => f.result = NoKey
            /\ (Finished(f) /\ AtLeast2p31(f.index))
                => (f.pc = "raised" /\ f.error = "ValueError")

\* C2: for an index in 0..2^31-1 derive makes one master HMAC (key
\* "ed25519 seed", message the seed) and then three child HMACs for the
\* segments 44, 148, index, each keyed with the previous ir over the 37-byte
\* message 0x00 || previous il || be32(0x80000000 + segment); il and ir are
\* replaced by each output and the value returned is the il of the last one.
C2_DerivationSteps ==
    \A c \in Calls :
        LET f == frames[c]
            segs == <<Big(0, 44), Big(0, 148), f.index>>
            n == Len(f.trace)
        IN  (f.op # "idle" /\ InHardenedRange(f.index)) =>
              /\ f.pc # "raised"
              /\ n <= 4
              /\ n >= 1 =>
                   /\ f.trace[1] =
                        [key |-> Lit(<<101, 100, 50, 53, 53, 49, 57, 32,
                                       115, 101, 101, 100>>),
                         msg |-> f.seed]
                   /\ f.il = Take(Digest(f.trace[n]), 32)
                   /\ f.ir = Drop(Digest(f.trace[n]), 32)
                   /\ BLen(f.il) = 32 /\ BLen(f.ir) = 32
              /\ \A k \in 1..(n - 1) :
                   /\ f.trace[k + 1].key = Drop(Digest(f.trace[k]), 32)
                   /\ f.trace[k + 1].msg =
                        Lit(<<0>>) \o Take(Digest(f.trace[k]), 32)
                                   \o Lit(HardenedBytes(segs[k]))
                   /\ BLen(f.trace[k + 1].msg) = 37
              /\ f.pc = "done" => (n = 4 /\ f.result = Take(Digest(f.trace[4]), 32))
              /\ (f.pc = "child" /\ f.path = <<>>) => n = 4

C2_Witness ==
    \E c \in Calls :
        /\ frames[c].pc = "done"
        /\ frames[c].index = Big(32767, 65535)
        /\ Len(frames[c].trace) = 4

\* C3: whenever derive returns a key, the index was in 0..2^31-1 and each of
\* the three child indices fed into HMAC had its top bit set.
C3_HardenedOnly ==
    \A c \in Calls :
        LET f == frames[c]
        IN  /\ \A k \in 2..Len(f.trace) : ChildIndexBytes(f.trace[k])[1] >= 128
            /\ f.pc = "done" => InHardenedRange(f.index)

\* C4: an out-of-range index is detected before the PBKDF2 stretch, the
\* master HMAC or any child HMAC has been computed.
C4_ErrorBeforeWork ==
    \A c \in Calls :
        frames[c].error # "" => (frames[c].kdf = <<>> /\ frames[c].trace = <<>>)

\* C7: to_seed(mnemonic, passphrase, index) is derive applied to the first 64
\* bytes of PBKDF2-HMAC-SHA512(password = NFKD(mnemonic), salt = "mnemonic" +
\* NFKD(passphrase), 2048 rounds) and index; an omitted passphrase is the
\* empty string and an omitted index is 0.
C7_ToSeed ==
    \A c \in Calls :
        LET f == frames[c]
            p == IF f.given.passphrase THEN f.passphrase ELSE <<>>
            i == IF f.given.index THEN f.index ELSE Big(0, 0)
            call == [hash |-> "sha512",
                     password |-> Utf8(normalize_string(f.mnemonic)),
                     salt |-> Utf8(<<"m", "n", "e", "m", "o", "n", "i", "c">>
                                   \o normalize_string(p)),
                     iterations |-> 2048]
            seed == pbkdf2_hmac("sha512", call.password, call.salt, 2048)
        IN  (f.op = "to_seed" /\ f.pc # "stretch") =>
              /\ f.kdf = <<call>>
              /\ f.seed = seed
              /\ BLen(f.seed) = 64
              /\ Finished(f) =>
                    [error |-> f.error, key |-> f.result] = derive(seed, i)

C7_Witness ==
    \E c \in Calls :
        /\ frames[c].op = "to_seed"
        /\ frames[c].pc = "done"
        /\ frames[c].mnemonic = <<"e_acute">>
        /\ ~frames[c].given.passphrase
        /\ ~frames[c].given.index

----------------------------------------------------------------------------
(* Language, StellarMnemonic.__init__ and StellarMnemonic.generate *)

\* the values of the members of the Language enum
LanguageValues ==
    {"japanese", "french", "english", "spanish", "italian", "korean",
     "chinese_simplified", "chinese_traditional"}

\* a constructor argument: a Language member or a str
Member(v) == [kind |-> "Language", value |-> v]

Str(v) == [kind |-> "str", value |-> v]

\* a constructor that passes any selector on to the base class
ConstructUnchecked(language) ==
    /\ Len(insts) < MaxInst
    /\ insts' = Append(insts, [language |-> language.value])
    /\ ctor' = [called |-> TRUE, arg |-> language, error |-> "",
                super_init |-> language.value]
    /\ UNCHANGED <<cls, frames, gen, sse>>

\* StellarMnemonic(language)
Construct(language) ==
    /\ IF language.kind = "Language" \/ language.value \in LanguageValues
       THEN /\ Len(insts) < MaxInst
            /\ insts' = Append(insts, [language |-> language.value])
            /\ ctor' = [called |-> TRUE, arg |-> language, error |-> "",
                        super_init |-> language.value]
       ELSE /\ insts' = insts
            /\ ctor' = [called |-> TRUE, arg |-> language, error |-> "ValueError",
                        super_init |-> ""]
    /\ UNCHANGED <<cls, frames, gen, sse>>

GenerateStrengths == {128, 160, 192, 224, 256}

\* a generate that asks for strength bytes rather than strength bits
GenerateBytes(self, strength, r) ==
    /\ self \in 1..Len(insts)
    /\ gen' = [called |-> TRUE, self |-> self, strength |-> strength, error |-> "",
               urandom |-> <<strength>>, encoded |-> <<Sym(r, strength)>>]
    /\ UNCHANGED <<cls, frames, insts, ctor, sse>>

\* self.generate(strength); r names the bytes os.urandom hands back
Generate(self, strength, r) ==
    /\ self \in 1..Len(insts)
    /\ IF strength \notin GenerateStrengths
       THEN gen' = [called |-> TRUE, self |-> self, strength |-> strength,
                    error |-> "ValueError", urandom |-> <<>>, encoded |-> <<>>]
       ELSE gen' = [called |-> TRUE, self |-> self, strength |-> strength,
                    error |-> "",
                    urandom |-> <<strength \div 8>>,
                    encoded |-> <<Sym(r, strength \div 8)>>]
    /\ UNCHANGED <<cls, frames, insts, ctor, sse>>

LanguageArgs ==
    {Member(v) : v \in LanguageValues}
        \cup {Str(v) : v \in LanguageValues \cup {"klingon", "ENGLISH", ""}}

Strengths == {0, 8, 100, 127, 128, 129, 160, 192, 224, 255, 256, 257, 512}

RandomNames == {"urandom_a", "urandom_b"}

(* Construction and mnemonic generation *)

DoConstruct == \E language \in LanguageArgs : Construct(language)

GenGenerate ==
    \E self \in 1..MaxInst, strength \in Strengths, r \in RandomNames :
        /\ (strength \notin GenerateStrengths) => r = "urandom_a"
        /\ Generate(self, strength, r)

NextGen ==
    \/ DoConstruct
    \/ GenGenerate

SpecGen == Init /\ [][NextGen]_vars

(* Construction with every kind of selector, and derivations made through *)
(* the instances                                                          *)

LangDerive ==
    \E via \in 0..Len(insts) : CallDerive(1, via, Sym("seedA", 64), Big(0, 1))

LangToSeed ==
    \E via \in 0..Len(insts) :
        CallToSeed(1, via, <<"i", "l", "l">>, FALSE, <<>>, FALSE, Big(0, 0))

NextLang ==
    \/ DoConstruct
    \/ LangDerive
    \/ LangToSeed
    \/ DoStretch
    \/ DoMaster
    \/ DoChild
    \/ DoReturn

SpecLang == Init /\ [][NextLang]_vars

\* C5: generate(strength) succeeds exactly for 128, 160, 192, 224, 256; any
\* other strength fails with ValueError and requests no random bytes; on
\* success there is exactly one request, of strength/8 bytes, and those
\* bytes are what the entropy-to-phrase encoder receives.
C5_Generate ==
    gen.called =>
        /\ (gen.error = "") <=> (gen.strength \in {128, 160, 192, 224, 256})
        /\ gen.error # "" =>
              (gen.error = "ValueError" /\ gen.urandom = <<>> /\ gen.encoded = <<>>)
        /\ gen.error = "" =>
              /\ Len(gen.urandom) = 1
              /\ gen.urandom[1] * 8 = gen.strength
              /\ Len(gen.encoded) = 1
              /\ BLen(gen.encoded[1]) = gen.urandom[1]
              /\ \E r \in RandomNames : gen.encoded[1] = Sym(r, gen.urandom[1])

C5_Witness ==
    /\ gen.called
    /\ gen.strength = 256
    /\ gen.urandom = <<32>>

\* C6: a selector outside the supported set fails with ValueError in the
\* constructor, before the base class is initialised and without creating an
\* instance; every Language member and every string equal to a member's value
\* is accepted; no to_seed or derive runs on an instance whose language is
\* unsupported.
C6_Language ==
    LET Supported == {"japanese", "french", "english", "spanish", "italian",
                      "korean", "chinese_simplified", "chinese_traditional"}
    IN  /\ ctor.called =>
              /\ (ctor.error = "") <=> (ctor.arg.value \in Supported)
              /\ ctor.error # "" => (ctor.error = "ValueError" /\ ctor.super_init = "")
              /\ ctor.error = "" =>
                    /\ ctor.super_init = ctor.arg.value
                    /\ insts # <<>>
                    /\ insts[Len(insts)].language = ctor.arg.value
        /\ \A i \in 1..Len(insts) : insts[i].language \in Supported
        /\ \A c \in Calls :
              frames[c].via # 0 =>
                 /\ frames[c].via \in 1..Len(insts)
                 /\ insts[frames[c].via].language \in Supported

C6_Witness ==
    /\ ctor.called
    /\ ctor.arg = Str("ENGLISH")
    /\ ctor.error = "ValueError"
    /\ insts = <<[language |-> "korean"]>>
    /\ \E c \in Calls : frames[c].via = 1 /\ frames[c].pc = "done"

----------------------------------------------------------------------------
(* Calls made one after another, mixed with constructor and generate calls *)

\* the next unused call, once every earlier call has returned or raised
NextCall(c) ==
    /\ frames[c].pc = "idle"
    /\ \A d \in Calls : d < c => Finished(frames[d])

SeqSeeds == {Sym("seedA", 64)}

SeqIndices == {Big(0, 0), Big(32768, 0)}

SeqDerive ==
    \E c \in Calls, seed \in SeqSeeds, index \in SeqIndices :
        NextCall(c) /\ CallDerive(c, 0, seed, index)

SeqToSeed ==
    \E c \in Calls, m \in {<<"e_acute">>, <<"e", "comb_acute">>}, hasP \in BOOLEAN :
        /\ NextCall(c)
        /\ CallToSeed(c, 0, m, hasP, <<"p">>, FALSE, Big(0, 0))

SeqConstruct == \E language \in {Member("english"), Str("klingon")} : Construct(language)

SeqGenerate ==
    \E self \in 1..MaxInst, strength \in {128, 100} : Generate(self, strength, "urandom_a")

NextSeq ==
    \/ SeqDerive
    \/ SeqToSeed
    \/ SeqConstruct
    \/ SeqGenerate
    \/ DoStretch
    \/ DoMaster
    \/ DoChild
    \/ DoReturn

SpecSeq == Init /\ [][NextSeq]_vars

SameCall(f, g) ==
    /\ f.op = g.op
    /\ f.mnemonic = g.mnemonic
    /\ f.passphrase = g.passphrase
    /\ f.seed = g.seed
    /\ f.index = g.index

\* C8: whatever to_seed, derive, generate and constructor calls came before,
\* two calls with the same arguments return the same bytes (or raise the same
\* error), every call recomputes its result (its PBKDF2 and HMAC invocations
\* are made afresh), and the class attributes keep their values.
C8_Deterministic ==
    /\ cls = [STELLAR_ACCOUNT_PATH_FORMAT |->
                  <<"m", "/", "4", "4", "'", "/", "1", "4", "8", "'", "/", "%", "d", "'">>,
              FIRST_HARDENED_INDEX |-> Big(128 * 256, 0),
              SEED_MODIFIER |-> Lit(<<101, 100, 50, 53, 53, 49, 57, 32,
                                      115, 101, 101, 100>>)]
    /\ \A c \in Calls, d \in Calls :
          (Finished(frames[c]) /\ Finished(frames[d]) /\ SameCall(frames[c], frames[d]))
             => /\ frames[c].result = frames[d].result
                /\ frames[c].error = frames[d].error
    /\ \A c \in Calls :
          LET f == frames[c]
          IN  /\ f.pc = "done" => (Len(f.trace) = 4 /\ f.result = Take(Digest(f.trace[4]), 32))
              /\ f.pc = "raised" => Len(f.trace) >= 1
              /\ (Finished(f) /\ f.op = "to_seed") => Len(f.kdf) = 1

C8_Witness ==
    /\ ctor.called /\ ctor.error # ""
    /\ gen.called
    /\ \E c \in Calls, d \in Calls :
          /\ c < d
          /\ frames[c].pc = "done" /\ frames[d].pc = "done"
          /\ frames[c].op = "to_seed"
          /\ SameCall(frames[c], frames[d])

----------------------------------------------------------------------------
(* Calls interleaved at the granularity of single HMAC steps *)

ConcIndices == {Big(0, 0), Big(0, 1), Big(32768, 0)}

ConcDerive ==
    \E c \in Calls, index \in ConcIndices :
        CallDerive(c, 0, Sym("seedA", 64), index)

ConcToSeed ==
    \E c \in Calls :
        CallToSeed(c, 0, <<"i", "l", "l">>, FALSE, <<>>, FALSE, Big(0, 0))

NextConc ==
    \/ ConcDerive
    \/ ConcToSeed
    \/ DoStretch
    \/ DoMaster
    \/ DoChild
    \/ DoReturn

SpecConc == Init /\ [][NextConc]_vars

\* C9: with calls interleaved step by step, each call's working pair (il, ir)
\* is always the output of that call's own latest HMAC, and each call ends
\* with exactly the outcome it has when it runs alone on the same arguments.
C9_NoInterference ==
    \A c \in Calls :
        LET f == frames[c]
            alone == IF f.op = "to_seed" THEN to_seed(f.mnemonic, f.passphrase, f.index)
                     ELSE derive(f.seed, f.index)
        IN  /\ (f.trace # <<>>) =>
                 /\ f.il = Take(Digest(f.trace[Len(f.trace)]), 32)
                 /\ f.ir = Drop(Digest(f.trace[Len(f.trace)]), 32)
            /\ Finished(f) => [error |-> f.error, key |-> f.result] = alone

C9_Witness ==
    \E c \in Calls, d \in Calls :
        /\ c # d
        /\ frames[c].pc = "done" /\ frames[d].pc = "done"
        /\ frames[c].overlapped /\ frames[d].overlapped
        /\ frames[c].result # frames[d].result

----------------------------------------------------------------------------
(* RequestsClient.stream and _SSEClient.__next__ *)

Quote == "\""

\* the data '"hello"' and '"byebye"', double quotes included
Hello == <<Quote, "h", "e", "l", "l", "o", Quote>>

Byebye == <<Quote, "b", "y", "e", "b", "y", "e", Quote>>

RECURSIVE StripLeft(_)
StripLeft(s) == IF s # <<>> /\ Head(s) = " " THEN StripLeft(Tail(s)) ELSE s

RECURSIVE StripRight(_)
StripRight(s) ==
    IF s # <<>> /\ s[Len(s)] = " " THEN StripRight(DropLast(s)) ELSE s

IsJsonString(s) ==
    /\ Len(s) >= 2
    /\ s[1] = Quote /\ s[Len(s)] = Quote
    /\ \A k \in 2..(Len(s) - 1) : s[k] # Quote /\ s[k] # "\\"

IsJsonInt(s) ==
    /\ s # <<>>
    /\ \A k \in 1..Len(s) : IsDigit(s[k])
    /\ Len(s) > 1 => s[1] # "0"

\* json.loads(data) on the JSON texts the model uses: a string without
\* escapes, an unsigned integer, the empty object; anything else does not
\* decode.  The value carries its type and its content.
json_loads(data) ==
    LET s == StripRight(StripLeft(data))
    IN  IF IsJsonString(s)
        THEN [ok |-> TRUE, value |-> [type |-> "str", v |-> SubSeq(s, 2, Len(s) - 1)]]
        ELSE IF IsJsonInt(s)
        THEN [ok |-> TRUE, value |-> [type |-> "int", v |-> s]]
        ELSE IF s = <<"{", "}">>
        THEN [ok |-> TRUE, value |-> [type |-> "dict", v |-> <<>>]]
        ELSE [ok |-> FALSE, value |-> [type |-> "", v |-> <<>>]]

\* a loop iteration whose filter joins the two comparisons with "or"
SSEMessageOr(data) ==
    /\ sse.state = "running"
    /\ sse.source = "open"
    /\ Len(sse.received) < MaxEvents
    /\ LET j == json_loads(data)
       IN  sse' = IF j.ok
                  THEN [sse EXCEPT !.received = Append(@, data),
                                   !.yielded = Append(@, j.value)]
                  ELSE [sse EXCEPT !.received = Append(@, data),
                                   !.state = "failed", !.error = "JSONDecodeError"]
    /\ UNCHANGED <<cls, frames, insts, ctor, gen>>

\* one iteration of the loop of __next__ in which the event source delivers a
\* message: hello and byebye are skipped, any other data is decoded and
\* yielded by stream, and a decoding error leaves the generator
SSEMessage(data) ==
    /\ sse.state = "running"
    /\ sse.source = "open"
    /\ Len(sse.received) < MaxEvents
    /\ LET j == json_loads(data)
       IN  sse' = IF data # Hello /\ data # Byebye
                  THEN IF j.ok
                       THEN [sse EXCEPT !.received = Append(@, data),
                                        !.yielded = Append(@, j.value)]
                       ELSE [sse EXCEPT !.received = Append(@, data),
                                        !.state = "failed",
                                        !.error = "JSONDecodeError"]
                  ELSE [sse EXCEPT !.received = Append(@, data)]
    /\ UNCHANGED <<cls, frames, insts, ctor, gen>>

\* next(self.client) raises StopIteration: the iteration and the generator end
SSEEnd ==
    /\ sse.state = "running"
    /\ sse.source = "open"
    /\ sse' = [sse EXCEPT !.source = "ended", !.state = "ended"]
    /\ UNCHANGED <<cls, frames, insts, ctor, gen>>

\* next(self.client) raises: the exception leaves __next__ and the generator
SSERaise ==
    /\ sse.state = "running"
    /\ sse.source = "open"
    /\ sse' = [sse EXCEPT !.source = "raised", !.state = "failed",
                          !.error = "source"]
    /\ UNCHANGED <<cls, frames, insts, ctor, gen>>

SSEData ==
    {Hello, Byebye,
     <<Quote, "h", "i", Quote>>,
     <<"7">>,
     <<"{", "}">>,
     <<>>,
     <<" ", Quote, "h", "e", "l", "l", "o", Quote>>}

DoMessage == \E data \in SSEData : SSEMessage(data)

NextStream ==
    \/ DoMessage
    \/ SSEEnd
    \/ SSERaise

SpecStream == Init /\ [][NextStream]_vars

RECURSIVE Kept(_)
\* the received data that is neither '"hello"' nor '"byebye"', in order
Kept(r) ==
    IF r = <<>> THEN <<>>
    ELSE IF Head(r) = Hello \/ Head(r) = Byebye THEN Kept(Tail(r))
         ELSE <<Head(r)>> \o Kept(Tail(r))

\* C10 as stated: the stream yields, in order and once each, the decoded data
\* of every message that is neither hello nor byebye, and it ends or fails
\* only when the event source ends or raises.
C10_StreamAsStated ==
    LET kept == Kept(sse.received)
    IN  /\ Len(sse.yielded) = Len(kept)
        /\ \A k \in 1..Len(kept) :
              json_loads(kept[k]).ok /\ sse.yielded[k] = json_loads(kept[k]).value
        /\ sse.state = "ended" <=> sse.source = "ended"
        /\ sse.state = "failed" <=> sse.source = "raised"

\* C10 amended: the same, except that a kept message whose data is not valid
\* JSON is not yielded and makes the stream fail with the decoding error; the
\* stream fails only then or when the event source raises, and ends only when
\* the event source ends.
C10_Stream ==
    LET kept == Kept(sse.received)
        bad == sse.error = "JSONDecodeError"
        good == IF bad THEN DropLast(kept) ELSE kept
    IN  /\ bad =>
              /\ sse.received # <<>>
              /\ kept # <<>>
              /\ kept[Len(kept)] = sse.received[Len(sse.received)]
              /\ ~json_loads(kept[Len(kept)]).ok
              /\ sse.source = "open"
        /\ Len(sse.yielded) = Len(good)
        /\ \A k \in 1..Len(good) :
              json_loads(good[k]).ok /\ sse.yielded[k] = json_loads(good[k]).value
        /\ sse.state = "ended" <=> sse.source = "ended"
        /\ sse.state = "failed" <=> (sse.source = "raised" \/ bad)
        /\ sse.error = "source" <=> sse.source = "raised"

C10_Witness ==
    /\ sse.received = <<Hello, Byebye, <<"7">>>>
    /\ sse.yielded = <<[type |-> "int", v |-> <<"7">>]>>
    /\ sse.state = "running"

====
